---- MODULE Spec2Model ----
(***************************************************************************)
(* Model of nutexb_swizzle: the mask generators and the mask walker of     *)
(* src/swizzle.rs, the format dispatch of swizzle_data / deswizzle_data,   *)
(* the inverse-index table builder and the pattern inference               *)
(* (guess_swizzle_patterns) of src/lib.rs.                                 *)
(***************************************************************************)
EXTENDS Integers, Sequences, FiniteSets, TLC

\* ------------------------------------------------------------------------
\* Bounds of the model
\* ------------------------------------------------------------------------

\* Mask generators are evaluated for tile counts up to 2^MaxLogTiles.
MaxLogTiles == 10

\* swizzle_data / deswizzle_data are called with pixel dimensions up to
\* 2^MaxLogPixels on each axis.
MaxLogPixels == 5

\* Number of distinct byte patterns the input buffers are drawn from.
NumPatterns == 2

\* Longest block sequence handed to create_mip_deswizzle_lut.
MaxBlocks == 3

\* Number of distinct block values.
NumBlockValues == 3

\* The probe of the pattern inference has up to 2^MaxLogProbe tiles on each
\* axis of mip level 0.
MaxLogProbe == 3

\* Largest number of mip levels of the deswizzled input of the inference.
MaxLevels == 3

\* ------------------------------------------------------------------------
\* 32-bit unsigned arithmetic (u32), as used by the mask generators.
\* A u32 is held as the set of its set bit positions, a subset of 0..31, so
\* that shifts lose the bits they push past either end, as in the code.
\* ------------------------------------------------------------------------

RECURSIVE Pow2(_)
Pow2(n) == IF n = 0 THEN 1 ELSE 2 * Pow2(n - 1)

\* Number of binary digits of the non-negative integer v (0 for v = 0).
RECURSIVE BitWidth(_)
BitWidth(v) == IF v = 0 THEN 0 ELSE 1 + BitWidth(v \div 2)

\* The u32 with the value of the integer literal v, 0 <= v < 2^31.
Bits(v) == {k \in 0..30 : (v \div Pow2(k)) % 2 = 1}

\* The integer value of a u32. Bit 31 is outside the integers TLC computes
\* with; no mask of the grids modelled here sets it.
RECURSIVE Val(_)
Val(s) ==
    IF s = {} THEN 0
    ELSE LET k == CHOOSE b \in s : TRUE IN Pow2(k) + Val(s \ {k})

\* a & b, a | b on u32.
BitAnd(a, b) == a \cap b
BitOr(a, b) == a \cup b

\* a << n on u32: bits shifted past bit 31 are lost.
Shl(a, n) == {k + n : k \in {b \in a : b + n <= 31}}

\* a >> n on u32, n < 32.
Shr(a, n) == {k - n : k \in {b \in a : b >= n}}

\* !0 as u32.
AllOnes == 0..31

\* u32::leading_zeros of the integer v
leading_zeros(v) == 32 - BitWidth(v)

Min(a, b) == IF a <= b THEN a ELSE b

\* ------------------------------------------------------------------------
\* Mask generators (src/swizzle.rs)
\* ------------------------------------------------------------------------

\* Plausible slip: the x mask of narrow grids set to the y mask's bit.
swizzle_x_16_narrow(width_in_blocks, height_in_blocks) ==
    IF width_in_blocks <= 2 THEN Val(Shl(Bits(2), 4))
    ELSE
        LET x == Shr(AllOnes, leading_zeros(width_in_blocks) + 1)
            max_shift == Min(32 - leading_zeros(height_in_blocks) - 1, 7)
            result == BitOr(BitOr(Shl(BitAnd(x, Bits(1)), 1),
                                  Shl(BitAnd(x, Bits(2)), 3)),
                            Shl(BitAnd(x, Shl(AllOnes, 2)), max_shift))
        IN Val(Shl(result, 4))

swizzle_x_16(width_in_blocks, height_in_blocks) ==
    IF width_in_blocks <= 2 THEN Val(Shl(Bits(1), 4))
    ELSE
        LET x == Shr(AllOnes, leading_zeros(width_in_blocks) + 1)
            max_shift == Min(32 - leading_zeros(height_in_blocks) - 1, 7)
            result == BitOr(BitOr(Shl(BitAnd(x, Bits(1)), 1),
                                  Shl(BitAnd(x, Bits(2)), 3)),
                            Shl(BitAnd(x, Shl(AllOnes, 2)), max_shift))
        IN Val(Shl(result, 4))

\* Plausible slip: the top bit of y (0x80) shifted by 2 like its neighbours.
swizzle_y_16_flat(width_in_blocks, height_in_blocks) ==
    IF height_in_blocks <= 2 THEN Val(Shl(Bits(2), 4))
    ELSE
        LET y == Shr(AllOnes, leading_zeros(height_in_blocks) + 1)
            result == BitOr(BitOr(BitAnd(y, Bits(1)), Shl(BitAnd(y, Bits(6)), 1)),
                            Shl(BitAnd(y, Bits(120 + 128)), 2))
        IN Val(Shl(result, 4))

swizzle_y_16(width_in_blocks, height_in_blocks) ==
    IF height_in_blocks <= 2 THEN Val(Shl(Bits(2), 4))
    ELSE
        LET y == Shr(AllOnes, leading_zeros(height_in_blocks) + 1)
            result == BitOr(BitOr(BitAnd(y, Bits(1)), Shl(BitAnd(y, Bits(6)), 1)),
                            BitOr(Shl(BitAnd(y, Bits(120)), 2),
                                  Shl(BitAnd(y, Bits(128)), 8)))
        IN Val(Shl(result, 4))

\* Plausible slip: the high lanes masked with !0 << 2 instead of !0 << 3.
swizzle_x_8_wide(width_in_blocks, height_in_blocks) ==
    LET x == Shr(AllOnes, leading_zeros(width_in_blocks) + 1)
        result == BitOr(BitOr(BitAnd(x, Bits(1)), Shl(BitAnd(x, Bits(2)), 1)),
                        BitOr(Shl(BitAnd(x, Bits(4)), 3),
                              Shl(BitAnd(x, Shl(AllOnes, 2)),
                                  32 - leading_zeros(height_in_blocks) - 1)))
    IN Val(Shl(result, 3))

swizzle_x_8(width_in_blocks, height_in_blocks) ==
    LET x == Shr(AllOnes, leading_zeros(width_in_blocks) + 1)
        result == BitOr(BitOr(BitAnd(x, Bits(1)), Shl(BitAnd(x, Bits(2)), 1)),
                        BitOr(Shl(BitAnd(x, Bits(4)), 3),
                              Shl(BitAnd(x, Shl(AllOnes, 3)),
                                  32 - leading_zeros(height_in_blocks) - 1)))
    IN Val(Shl(result, 3))

swizzle_y_8(width_in_blocks, height_in_blocks) ==
    LET y == Shr(AllOnes, leading_zeros(height_in_blocks) + 1)
        result == BitOr(Shl(BitAnd(y, Bits(1)), 1),
                        BitOr(Shl(BitAnd(y, Bits(6)), 2),
                              Shl(BitAnd(y, Bits(120)), 3)))
    IN Val(Shl(result, 3))

\* ------------------------------------------------------------------------
\* Byte buffers: functions from 0..n-1 to bytes
\* ------------------------------------------------------------------------

BufLen(b) == Cardinality(DOMAIN b)

\* vec![0u8; n]
Zeros(n) == [k \in 0..(n - 1) |-> 0]

\* ------------------------------------------------------------------------
\* State
\* ------------------------------------------------------------------------

VARIABLES
    \* one evaluation of a pair of mask generators
    mask_pc,        \* "args" before the call, "result" after it
    mask_variant,   \* bytes per tile of the generator pair: 8 or 16
    mask_w,         \* width_in_blocks argument
    mask_h,         \* height_in_blocks argument
    mask_x,         \* value returned by swizzle_x_<variant>
    mask_y,         \* value returned by swizzle_y_<variant>
    \* swizzle_data / deswizzle_data and the walker they run
    pc,             \* "idle", "walk", "returned", "panic"
    stage,          \* number of swizzle_data / deswizzle_data calls started
    pattern,        \* which input pattern the first call was given
    format,         \* ImageFormat of the call
    width,          \* width in pixels of the call
    height,         \* height in pixels of the call
    deswizzle,      \* direction flag handed to swizzle_experimental
    input_data,     \* source buffer, bytes indexed from 0
    output_data,    \* destination buffer, bytes indexed from 0
    grid_width,     \* width argument of swizzle_experimental
    grid_height,    \* height argument of swizzle_experimental
    bytes_per_copy, \* bytes_per_copy argument of swizzle_experimental
    x_mask,         \* swizzle_x(width, height) as i32
    y_mask,         \* swizzle_y(width, height) as i32
    offset_x,       \* i32
    offset_y,       \* i32
    dst,            \* linear address of the next copy
    row,            \* outer loop counter
    col,            \* inner loop counter
    visited,        \* history: the swizzled address src of every inner step
    copies,         \* history: the (linear, swizzled) addresses of every copy
    \* one call of create_mip_deswizzle_lut
    lut_pc,         \* "build", "lookup", "done"
    linear,         \* the linear (probe) blocks, indexed from 0
    deswizzled,     \* the deswizzled blocks, indexed from 0
    linear_index_by_block, \* the hash map: block -> index in linear
    next_insert,    \* position of the first loop in linear
    looked_up,      \* results of the parallel tasks that have run, by index
    lut,            \* the collected table, indexed from 0
    \* one call of guess_swizzle_patterns
    guess_pc,       \* "read", "luts", "done", "panic"
    guess_format,   \* the format argument
    guess_width,    \* the width argument, in pixels
    guess_height,   \* the height argument, in pixels
    arrangement,    \* history: how the deswizzled input was made
    swizzled_mipmaps,   \* the levels of the swizzled input, indexed from 0
    deswizzled_mipmaps, \* the levels of the deswizzled input, indexed from 0
    mip_luts,       \* the tables built so far, by level
    pattern_luts,   \* the tables handed to get_swizzle_patterns_output, by level
    mip_outputs,    \* the outputs computed so far, by level
    finish_order,   \* history: the levels in the order their outputs were computed
    printed         \* the outputs in the order they are printed, indexed from 0

mask_vars == <<mask_pc, mask_variant, mask_w, mask_h, mask_x, mask_y>>

call_vars == <<stage, pattern, format, width, height, deswizzle, input_data,
               grid_width, grid_height, bytes_per_copy, x_mask, y_mask>>

walk_vars == <<pc, output_data, offset_x, offset_y, dst, row, col, visited, copies>>

lut_vars == <<lut_pc, linear, deswizzled, linear_index_by_block, next_insert,
              looked_up, lut>>

guess_vars == <<guess_pc, guess_format, guess_width, guess_height, arrangement,
                swizzled_mipmaps, deswizzled_mipmaps, mip_luts, pattern_luts,
                mip_outputs, finish_order, printed>>

vars == <<mask_vars, call_vars, walk_vars, lut_vars, guess_vars>>

\* ------------------------------------------------------------------------
\* Evaluation of the mask generators on a tile grid
\* ------------------------------------------------------------------------

\* Tile counts the generators are evaluated on: every power of two up to
\* 2^MaxLogTiles and its two neighbours (the generators read their arguments
\* only through leading_zeros and the comparison with 2).
TileCounts ==
    {n \in 1..Pow2(MaxLogTiles) :
        \E k \in 0..MaxLogTiles : n \in {Pow2(k) - 1, Pow2(k), Pow2(k) + 1}}

MaskInit ==
    /\ mask_pc = "args"
    /\ mask_variant \in {8, 16}
    /\ mask_w \in TileCounts
    /\ mask_h \in TileCounts
    /\ mask_x = 0
    /\ mask_y = 0

MaskIdle ==
    /\ mask_pc = "none"
    /\ mask_variant = 16
    /\ mask_w = 1
    /\ mask_h = 1
    /\ mask_x = 0
    /\ mask_y = 0

WalkerIdle ==
    /\ pc = "idle"
    /\ stage = 0
    /\ pattern = 0
    /\ format = "Rgba8"
    /\ width = 1
    /\ height = 1
    /\ deswizzle = FALSE
    /\ input_data = Zeros(0)
    /\ output_data = Zeros(0)
    /\ grid_width = 0
    /\ grid_height = 0
    /\ bytes_per_copy = 0
    /\ x_mask = 0
    /\ y_mask = 0
    /\ offset_x = 0
    /\ offset_y = 0
    /\ dst = 0
    /\ row = 0
    /\ col = 0
    /\ visited = << >>
    /\ copies = << >>

LutIdle ==
    /\ lut_pc = "none"
    /\ linear = Zeros(0)
    /\ deswizzled = Zeros(0)
    /\ linear_index_by_block = Zeros(0)
    /\ next_insert = 0
    /\ looked_up = Zeros(0)
    /\ lut = Zeros(0)

GuessIdle ==
    /\ guess_pc = "none"
    /\ guess_format = "Rgba8"
    /\ guess_width = 1
    /\ guess_height = 1
    /\ arrangement = "rotate"
    /\ swizzled_mipmaps = Zeros(0)
    /\ deswizzled_mipmaps = Zeros(0)
    /\ mip_luts = Zeros(0)
    /\ pattern_luts = Zeros(0)
    /\ mip_outputs = Zeros(0)
    /\ finish_order = << >>
    /\ printed = Zeros(0)

\* swizzle_x_16(w, h) and swizzle_y_16(w, h)
Eval16 ==
    /\ mask_pc = "args"
    /\ mask_variant = 16
    /\ mask_x' = swizzle_x_16(mask_w, mask_h)
    /\ mask_y' = swizzle_y_16(mask_w, mask_h)
    /\ mask_pc' = "result"
    /\ UNCHANGED <<mask_variant, mask_w, mask_h, call_vars, guess_vars, walk_vars, lut_vars>>

\* swizzle_x_8(w, h) and swizzle_y_8(w, h)
Eval8 ==
    /\ mask_pc = "args"
    /\ mask_variant = 8
    /\ mask_x' = swizzle_x_8(mask_w, mask_h)
    /\ mask_y' = swizzle_y_8(mask_w, mask_h)
    /\ mask_pc' = "result"
    /\ UNCHANGED <<mask_variant, mask_w, mask_h, call_vars, guess_vars, walk_vars, lut_vars>>

MaskNext == Eval16 \/ Eval8

InitMask == MaskInit /\ WalkerIdle /\ LutIdle /\ GuessIdle

SpecMask == InitMask /\ [][MaskNext]_vars

\* ------------------------------------------------------------------------
\* Callers' inputs
\* ------------------------------------------------------------------------

\* Tile edge in pixels of a format, as the data model of the specification
\* gives it; it sizes the buffers the caller hands in.
TileEdge(fmt) == IF fmt \in {"Rgba8", "RgbaF32"} THEN 1 ELSE 4

Formats == {"Rgba8", "RgbaF32", "Bc1", "Bc3", "Bc7"}

\* Pixel dimensions of the calls: powers of two up to 2^MaxLogPixels.
PixelSizes == {Pow2(k) : k \in 0..MaxLogPixels}

\* Input pattern p of n bytes: every aligned group of 8 bytes starts with a
\* tag that differs from group to group, so that moved tiles show.
InputBuffer(p, n) ==
    [k \in 0..(n - 1) |->
        IF k % 8 = 0 THEN ((k \div 8) * (2 * p - 1) + p) % 256
        ELSE (k * p) % 251]

\* ------------------------------------------------------------------------
\* Format dispatch (src/lib.rs)
\* ------------------------------------------------------------------------

get_tile_size(fmt) ==
    CASE fmt = "Rgba8" -> 4
      [] fmt = "RgbaF32" -> 16
      [] fmt = "Bc1" -> 8
      [] fmt \in {"Bc3", "Bc7"} -> 16

\* Size of the buffer swizzle_data and deswizzle_data allocate.
OutputSize(fmt, w, h) == (w \div 4) * (h \div 4) * get_tile_size(fmt)

\* Plausible slip: the uncompressed format walked on the block grid too.
WalkerWidth_blocks(fmt, w) == w \div 4

\* The width (or height) handed to swizzle_experimental.
WalkerWidth(fmt, w) == IF fmt = "RgbaF32" THEN w ELSE w \div 4

\* Plausible slip: Rgba8 sent to the 16-byte walker like the other formats.
RunsWalker_all(fmt) == TRUE

\* Whether the format's match arm calls swizzle_experimental: the arm of
\* Rgba8 is empty.
RunsWalker(fmt) == fmt # "Rgba8"

\* The mask generators handed to swizzle_experimental.
MaskX(fmt, w, h) == IF fmt = "Bc1" THEN swizzle_x_8(w, h) ELSE swizzle_x_16(w, h)
MaskY(fmt, w, h) == IF fmt = "Bc1" THEN swizzle_y_8(w, h) ELSE swizzle_y_16(w, h)

\* bytes_per_copy handed to swizzle_experimental.
BytesPerCopy(fmt) == IF fmt = "Bc1" THEN 8 ELSE 16

\* ------------------------------------------------------------------------
\* i32 arithmetic of the walker
\* ------------------------------------------------------------------------

\* v & m for an i32 v (two's complement) and a mask 0 <= m < 2^31.
I32And(v, m) == Val({k \in Bits(m) : (v \div Pow2(k)) % 2 = 1})

\* Plausible slip: the increment without the mask applied.
NextOffset_unmasked(offset, mask) == mask - offset

\* (offset - mask) & mask
NextOffset(offset, mask) == I32And(offset - mask, mask)

\* ------------------------------------------------------------------------
\* swizzle_data, deswizzle_data and swizzle_experimental
\* ------------------------------------------------------------------------

\* Entry of swizzle_data (desw = FALSE) or deswizzle_data (desw = TRUE) up
\* to the first iteration of the walker's loop.
Enter(desw, fmt, w, h, data) ==
    /\ deswizzle' = desw
    /\ format' = fmt
    /\ width' = w
    /\ height' = h
    /\ input_data' = data
    /\ output_data' = Zeros(OutputSize(fmt, w, h))
    /\ stage' = stage + 1
    /\ offset_x' = 0
    /\ offset_y' = 0
    /\ dst' = 0
    /\ row' = 0
    /\ col' = 0
    /\ visited' = << >>
    /\ copies' = << >>
    /\ IF ~RunsWalker(fmt)
       THEN /\ pc' = "returned"
            /\ grid_width' = 0
            /\ grid_height' = 0
            /\ bytes_per_copy' = 0
            /\ x_mask' = 0
            /\ y_mask' = 0
       ELSE /\ pc' = "walk"
            /\ grid_width' = WalkerWidth(fmt, w)
            /\ grid_height' = WalkerWidth(fmt, h)
            /\ bytes_per_copy' = BytesPerCopy(fmt)
            /\ x_mask' = MaskX(fmt, WalkerWidth(fmt, w), WalkerWidth(fmt, h))
            /\ y_mask' = MaskY(fmt, WalkerWidth(fmt, w), WalkerWidth(fmt, h))

\* A first call on a buffer of the expected size of a supported image.
FirstCall(desw) ==
    /\ pc = "idle"
    /\ stage = 0
    /\ \E fmt \in Formats, w \in PixelSizes, h \in PixelSizes, p \in 1..NumPatterns :
          /\ w >= TileEdge(fmt)
          /\ h >= TileEdge(fmt)
          /\ pattern' = p
          /\ Enter(desw, fmt, w, h,
                   InputBuffer(p, (w \div TileEdge(fmt)) * (h \div TileEdge(fmt))
                                      * get_tile_size(fmt)))

\* A second call, on the buffer the first call returned.
SecondCall(desw) ==
    /\ pc = "returned"
    /\ stage = 1
    /\ deswizzle = ~desw
    /\ pattern' = pattern
    /\ Enter(desw, format, width, height, output_data)

\* The size the caller's buffer is expected to have: one tile of
\* get_tile_size bytes per tile of the image.
ExpectedSize(fmt, w, h) ==
    (w \div TileEdge(fmt)) * (h \div TileEdge(fmt)) * get_tile_size(fmt)

\* Differences between the length of the buffer handed in and the expected
\* size: a tile short, a byte short, exact, a byte long.
LengthDeltas(fmt) == {0 - get_tile_size(fmt), -1, 0, 1}

\* A call of swizzle_data or deswizzle_data on a buffer of any of these
\* lengths.
CallWithLength ==
    /\ pc = "idle"
    /\ stage = 0
    /\ \E desw \in BOOLEAN, fmt \in Formats, w \in PixelSizes, h \in PixelSizes,
          p \in 1..NumPatterns :
          /\ w >= TileEdge(fmt)
          /\ h >= TileEdge(fmt)
          /\ \E d \in LengthDeltas(fmt) :
                /\ ExpectedSize(fmt, w, h) + d >= 0
                /\ pattern' = p
                /\ Enter(desw, fmt, w, h, InputBuffer(p, ExpectedSize(fmt, w, h) + d))
    /\ UNCHANGED <<mask_vars, guess_vars, lut_vars>>

swizzle_data ==
    /\ FirstCall(FALSE) \/ SecondCall(FALSE)
    /\ UNCHANGED <<mask_vars, guess_vars, lut_vars>>

deswizzle_data ==
    /\ FirstCall(TRUE) \/ SecondCall(TRUE)
    /\ UNCHANGED <<mask_vars, guess_vars, lut_vars>>

\* The swizzled address of the current step.
Src == offset_x + offset_y

InBounds(buf, start, n) == start + n <= BufLen(buf)

\* destination[to .. to + n].copy_from_slice(&source[from .. from + n]), both
\* slices in bounds: the bytes are copied one by one.
RECURSIVE CopySlice(_, _, _, _, _)
CopySlice(destination, to, source, from, n) ==
    IF n = 0 THEN destination
    ELSE CopySlice([destination EXCEPT ![to] = source[from]],
                   to + 1, source, from + 1, n - 1)

\* Plausible slip: the two directions exchanged.
CopyTile_swapped(destination, source, desw, l, s, n) ==
    IF desw
    THEN CopySlice(destination, s, source, l, n)
    ELSE CopySlice(destination, l, source, s, n)

\* The copy of one iteration between the linear address l and the swizzled
\* address s, by direction.
CopyTile(destination, source, desw, l, s, n) ==
    IF desw
    THEN CopySlice(destination, l, source, s, n)
    ELSE CopySlice(destination, s, source, l, n)

\* Whether the two slices of one iteration lie inside their buffers.
StepInBounds ==
    IF deswizzle
    THEN InBounds(output_data, dst, bytes_per_copy)
         /\ InBounds(input_data, Src, bytes_per_copy)
    ELSE InBounds(output_data, Src, bytes_per_copy)
         /\ InBounds(input_data, dst, bytes_per_copy)

\* One iteration of the inner loop.
WalkCopy ==
    /\ pc = "walk"
    /\ row < grid_height
    /\ col < grid_width
    /\ StepInBounds
    /\ output_data' = CopyTile(output_data, input_data, deswizzle, dst, Src,
                               bytes_per_copy)
    /\ offset_x' = NextOffset(offset_x, x_mask)
    /\ dst' = dst + bytes_per_copy
    /\ col' = col + 1
    /\ visited' = Append(visited, Src)
    /\ copies' = Append(copies, <<dst, Src>>)
    /\ UNCHANGED <<pc, offset_y, row, mask_vars, guess_vars, call_vars, lut_vars>>

\* One iteration of the inner loop whose slice is out of bounds: the slice
\* index panics and the call never returns.
WalkPanic ==
    /\ pc = "walk"
    /\ row < grid_height
    /\ col < grid_width
    /\ ~StepInBounds
    /\ pc' = "panic"
    /\ visited' = Append(visited, Src)
    /\ UNCHANGED <<output_data, offset_x, offset_y, dst, row, col, copies,
                   mask_vars, guess_vars, call_vars, lut_vars>>

\* End of one row of the outer loop.
WalkRowEnd ==
    /\ pc = "walk"
    /\ row < grid_height
    /\ col = grid_width
    /\ offset_y' = NextOffset(offset_y, y_mask)
    /\ row' = row + 1
    /\ col' = 0
    /\ UNCHANGED <<pc, output_data, offset_x, dst, visited, copies,
                   mask_vars, guess_vars, call_vars, lut_vars>>

\* The loops are over: output_data is returned.
WalkReturn ==
    /\ pc = "walk"
    /\ row = grid_height
    /\ pc' = "returned"
    /\ UNCHANGED <<output_data, offset_x, offset_y, dst, row, col, visited, copies,
                   mask_vars, guess_vars, call_vars, lut_vars>>

Init == MaskIdle /\ WalkerIdle /\ LutIdle /\ GuessIdle

Next ==
    \/ swizzle_data
    \/ deswizzle_data
    \/ WalkCopy
    \/ WalkPanic
    \/ WalkRowEnd
    \/ WalkReturn

Spec == Init /\ [][Next]_vars

\* The same operations called on buffers whose length need not be the
\* expected one.
InitBuf == MaskIdle /\ WalkerIdle /\ LutIdle /\ GuessIdle

NextBuf ==
    \/ CallWithLength
    \/ WalkCopy
    \/ WalkPanic
    \/ WalkRowEnd
    \/ WalkReturn

SpecBuf == InitBuf /\ [][NextBuf]_vars

\* ------------------------------------------------------------------------
\* create_mip_deswizzle_lut (src/lib.rs)
\* ------------------------------------------------------------------------

Blocks == 1..NumBlockValues

\* Block sequences of up to MaxBlocks blocks, indexed from 0.
BlockSeqs == UNION {[0..(n - 1) -> Blocks] : n \in 0..MaxBlocks}

\* Plausible slip: an entry already present is kept (the first index wins).
MapInsert_keep_first(map, key, i) ==
    [b \in DOMAIN map \cup {key} |-> IF b \in DOMAIN map THEN map[b] ELSE i]

\* Plausible slip: positions counted from 1.
MapInsert_one_based(map, key, i) ==
    [b \in DOMAIN map \cup {key} |-> IF b = key THEN i + 1 ELSE map[b]]

\* AHashMap::insert: a later insertion of the same key replaces the value.
MapInsert(map, key, i) ==
    IF key \in DOMAIN map THEN [map EXCEPT ![key] = i] ELSE map @@ (key :> i)

\* The closure of the parallel map: the index found for the block, else -1.
LookupBlock(map, block) ==
    IF block \in DOMAIN map THEN map[block] ELSE -1

LutInit ==
    /\ lut_pc = "build"
    /\ linear \in BlockSeqs
    /\ deswizzled \in BlockSeqs
    /\ linear_index_by_block = Zeros(0)
    /\ next_insert = 0
    /\ looked_up = Zeros(0)
    /\ lut = Zeros(0)

\* One iteration of the loop over linear.iter().enumerate().
HashInsert ==
    /\ lut_pc = "build"
    /\ next_insert < BufLen(linear)
    /\ linear_index_by_block' =
           MapInsert(linear_index_by_block, linear[next_insert], next_insert)
    /\ next_insert' = next_insert + 1
    /\ UNCHANGED <<lut_pc, linear, deswizzled, looked_up, lut,
                   mask_vars, guess_vars, call_vars, walk_vars>>

\* The map is complete: par_iter hands the blocks to the pool.
StartLookups ==
    /\ lut_pc = "build"
    /\ next_insert = BufLen(linear)
    /\ lut_pc' = "lookup"
    /\ UNCHANGED <<linear, deswizzled, linear_index_by_block, next_insert,
                   looked_up, lut, mask_vars, guess_vars, call_vars, walk_vars>>

\* The task of one deswizzled block runs; tasks run in any order.
Lookup ==
    /\ lut_pc = "lookup"
    /\ \E i \in DOMAIN deswizzled \ DOMAIN looked_up :
          looked_up' = [j \in DOMAIN looked_up \cup {i} |->
                           IF j = i
                           THEN LookupBlock(linear_index_by_block, deswizzled[i])
                           ELSE looked_up[j]]
    /\ UNCHANGED <<lut_pc, linear, deswizzled, linear_index_by_block, next_insert,
                   lut, mask_vars, guess_vars, call_vars, walk_vars>>

\* collect(): once every task has run, the results in the order of the input.
Collect ==
    /\ lut_pc = "lookup"
    /\ DOMAIN looked_up = DOMAIN deswizzled
    /\ lut' = [i \in 0..(BufLen(deswizzled) - 1) |-> looked_up[i]]
    /\ lut_pc' = "done"
    /\ UNCHANGED <<linear, deswizzled, linear_index_by_block, next_insert,
                   looked_up, mask_vars, guess_vars, call_vars, walk_vars>>

LutNext == HashInsert \/ StartLookups \/ Lookup \/ Collect

InitLut == LutInit /\ MaskIdle /\ WalkerIdle /\ GuessIdle

SpecLut == InitLut /\ [][LutNext]_vars

\* ------------------------------------------------------------------------
\* guess_swizzle_patterns: pattern inference over the mip levels
\* ------------------------------------------------------------------------

\* width / 2^i of mip level i.
LevelDim(d, i) == d \div Pow2(i)

\* Number of blocks read_mipmaps_dds reads for level m of a texture whose
\* level 0 holds n0 blocks: each level has a quarter of the bytes of the
\* previous one.
RECURSIVE LevelBlocks(_, _)
LevelBlocks(n0, m) == IF m = 0 THEN n0 ELSE LevelBlocks(n0, m - 1) \div 4

\* Index of the first block of level m in a probe that covers all levels.
RECURSIVE LevelBase(_, _)
LevelBase(n0, m) ==
    IF m = 0 THEN 0 ELSE LevelBase(n0, m - 1) + LevelBlocks(n0, m - 1)

\* s extended to the offsets of the first n steps of the walker along one
\* axis, offset = (offset - mask) & mask after every step (the steps are
\* taken in order; the work is split in halves and the first half is
\* evaluated before the second, which keeps the evaluation shallow).
RECURSIVE OffsetsTo(_, _, _)
OffsetsTo(s, mask, n) ==
    IF Len(s) >= n THEN s
    ELSE IF Len(s) + 1 = n THEN Append(s, NextOffset(s[Len(s)], mask))
    ELSE CHOOSE r \in {OffsetsTo(t, mask, n) :
                          t \in {OffsetsTo(s, mask, (Len(s) + n) \div 2)}} : TRUE

\* The offsets of the first n steps, starting at 0 (the mask is evaluated
\* once, before the steps).
Offsets(mask, n) ==
    IF n = 0 THEN << >>
    ELSE CHOOSE r \in {OffsetsTo(<<0>>, m, n) : m \in {mask}} : TRUE

\* The source addresses of a deswizzling walk over w x h tiles, by linear
\* position: offset_x moves on at every step and is not reset at a row
\* start, offset_y moves on once per row.
SumOffsets(xs, ys, w, h) ==
    [l \in 0..(w * h - 1) |-> xs[l + 1] + ys[(l \div w) + 1]]

WalkAddresses(mx, my, w, h) ==
    SumOffsets(Offsets(mx, w * h), Offsets(my, h), w, h)

\* The probe blocks base .. base + n - 1, each block its own index.
ProbeBlocks(base, n) == [k \in 0..(n - 1) |-> base + k]

\* The blocks deswizzle_data's walker produces from ProbeBlocks(base, w * h)
\* in units of one tile.
BlocksAt(a, base, bytes) == [l \in DOMAIN a |-> base + (a[l] \div bytes)]

DeswizzledProbe(fmt, base, w, h) ==
    BlocksAt(WalkAddresses(MaskX(fmt, w, h), MaskY(fmt, w, h), w, h),
             base, BytesPerCopy(fmt))

\* Kinds of deswizzled input the inference is run on: the output of the
\* walker on the probe, the probe rotated by one block, and the rotated probe
\* with a first block that the probe does not hold.
Arrangements == {"walk", "rotate", "foreign"}

\* Level m of the deswizzled input.
DeswizzledLevel(arr, fmt, w, h, n0, m) ==
    LET n == LevelBlocks(n0, m)
        base == LevelBase(n0, m)
        gw == WalkerWidth(fmt, LevelDim(w, m))
        gh == WalkerWidth(fmt, LevelDim(h, m))
    IN  IF arr = "walk"
        THEN DeswizzledProbe(fmt, base, gw, gh)
        ELSE [l \in 0..(n - 1) |->
                 IF arr = "foreign" /\ l = 0
                 THEN LevelBase(n0, MaxLevels) + m
                 ELSE base + ((l + 1) % n)]

\* Whether every level is a grid the walker can be run on: the format has
\* a walker and the grid has the tiles of the level.
WalkGrids(fmt, w, h, n0, levels) ==
    /\ RunsWalker(fmt)
    /\ \A m \in 0..(levels - 1) :
          LET gw == WalkerWidth(fmt, LevelDim(w, m))
              gh == WalkerWidth(fmt, LevelDim(h, m))
          IN  gw * gh = LevelBlocks(n0, m) /\ gw * gh >= 1

\* Whether the walk of every level read only blocks of the level, that is,
\* stayed inside the buffer (a read outside it panics).
WalkStaysInside(levels, n0) ==
    \A m \in DOMAIN levels :
        \A l \in DOMAIN levels[m] :
            levels[m][l] < LevelBase(n0, m) + LevelBlocks(n0, m)

\* The state after both files are read (lib.rs 346-364): a probe of unique
\* blocks as the swizzled input, in one level covering every mip or in one
\* level per mip, and a deswizzled input of 1..MaxLevels levels.
GuessInit ==
    \E fmt \in Formats, a \in 0..MaxLogProbe, b \in 0..MaxLogProbe,
       levels \in 1..MaxLevels, flat \in BOOLEAN, arr \in Arrangements :
        LET w == Pow2(a) * TileEdge(fmt)
            h == Pow2(b) * TileEdge(fmt)
            n0 == Pow2(a) * Pow2(b)
        IN  /\ arr = "walk" => WalkGrids(fmt, w, h, n0, levels)
            /\ guess_pc = "read"
            /\ guess_format = fmt
            /\ guess_width = w
            /\ guess_height = h
            /\ arrangement = arr
            /\ swizzled_mipmaps =
                  IF flat
                  THEN [m \in {0} |-> ProbeBlocks(0, LevelBase(n0, levels))]
                  ELSE [m \in 0..(levels - 1) |->
                           ProbeBlocks(LevelBase(n0, m), LevelBlocks(n0, m))]
            /\ deswizzled_mipmaps =
                  [m \in 0..(levels - 1) |->
                      DeswizzledLevel(arr, fmt, w, h, n0, m)]
            /\ arr = "walk" => WalkStaysInside(deswizzled_mipmaps, n0)
            /\ mip_luts = Zeros(0)
            /\ pattern_luts = Zeros(0)
            /\ mip_outputs = Zeros(0)
            /\ finish_order = << >>
            /\ printed = Zeros(0)

\* The hash map after the iterations lo .. hi - 1 of the loop over
\* linear.iter().enumerate() (taken in order; the work is split in halves
\* and the first half is evaluated before the second).
RECURSIVE InsertRange(_, _, _, _)
InsertRange(map, lin, lo, hi) ==
    IF lo >= hi THEN map
    ELSE IF lo + 1 = hi THEN MapInsert(map, lin[lo], lo)
    ELSE CHOOSE r \in {InsertRange(m, lin, (lo + hi) \div 2, hi) :
                          m \in {InsertRange(map, lin, lo, (lo + hi) \div 2)}} : TRUE

\* The hash map after the whole loop.
BuildMap(lin) == InsertRange(Zeros(0), lin, 0, BufLen(lin))

\* The table create_mip_deswizzle_lut returns.
LookupAll(map, desw) ==
    [i \in 0..(BufLen(desw) - 1) |-> LookupBlock(map, desw[i])]

create_mip_deswizzle_lut(lin, desw) == LookupAll(BuildMap(lin), desw)

MinLen(a, b) == IF a < b THEN a ELSE b

\* The tables as the parameter names of create_deswizzle_luts read: level m
\* of linear_mipmaps as linear, level m of deswizzled_mipmaps as deswizzled.
create_deswizzle_luts_as_named(linear_mipmaps, deswizzled_mips) ==
    [m \in 0..(MinLen(BufLen(deswizzled_mips), BufLen(linear_mipmaps)) - 1) |->
        create_mip_deswizzle_lut(linear_mipmaps[m], deswizzled_mips[m])]

\* create_deswizzle_luts: the zip yields (level of deswizzled_mipmaps, level
\* of linear_mipmaps); the pattern (linear_mip, deswizzled_mip) binds them
\* in that order, so the level of deswizzled_mipmaps is passed as linear.
create_deswizzle_luts(linear_mipmaps, deswizzled_mips) ==
    [m \in 0..(MinLen(BufLen(deswizzled_mips), BufLen(linear_mipmaps)) - 1) |->
        LET linear_mip == deswizzled_mips[m]
            deswizzled_mip == linear_mipmaps[m]
        IN  create_mip_deswizzle_lut(linear_mip, deswizzled_mip)]

\* get_mipmap_range: the least and the greatest entry of a non-empty table.
MinOf(t) == CHOOSE v \in {t[k] : k \in DOMAIN t} : \A k \in DOMAIN t : v <= t[k]

MaxOf(t) == CHOOSE v \in {t[k] : k \in DOMAIN t} : \A k \in DOMAIN t : t[k] <= v

Shifted(t, by) == [k \in DOMAIN t |-> t[k] - by]

\* {:032b} of an i64: the binary digits, most significant first, padded with
\* zeros to 32 digits; a negative value prints the 64 digits of its two's
\* complement.
BinaryDigit(v, k) ==
    IF k <= 30 THEN (v \div Pow2(k)) % 2 ELSE IF v < 0 THEN 1 ELSE 0

Format032b(v) ==
    LET n == IF v < 0 THEN 64 ELSE 32
    IN  [k \in 1..n |-> BinaryDigit(v, n - k)]

\* String::new()
EmptyOutput == [kind |-> "empty"]

\* The outcome of an index out of bounds or of unwrap on None.
PanicOutput == [kind |-> "panic"]

\* tile_dimension of the format.
tile_dimension(fmt) == IF fmt = "Rgba8" THEN 1 ELSE 4

\* Plausible slip: the last tile of the table as the y probe.
y_pattern_index_last(width_in_tiles, height_in_tiles) ==
    IF height_in_tiles > 1 THEN width_in_tiles * height_in_tiles - 1 ELSE 0

x_pattern_index(width_in_tiles) ==
    IF width_in_tiles > 1 THEN width_in_tiles - 1 ELSE 0

y_pattern_index(width_in_tiles, height_in_tiles) ==
    IF height_in_tiles > 1 THEN width_in_tiles * (height_in_tiles - 1) ELSE 0

get_swizzle_patterns_output(deswizzle_lut, w, h, tile_dim) ==
    IF w = 0 \/ h = 0 \/ BufLen(deswizzle_lut) = 0
    THEN EmptyOutput
    ELSE LET width_in_tiles == w \div tile_dim
             height_in_tiles == h \div tile_dim
             xi == x_pattern_index(width_in_tiles)
             yi == y_pattern_index(width_in_tiles, height_in_tiles)
         IN  IF xi \in DOMAIN deswizzle_lut /\ yi \in DOMAIN deswizzle_lut
             THEN [kind |-> "pattern", width |-> w, height |-> h,
                   x |-> Format032b(deswizzle_lut[xi]),
                   y |-> Format032b(deswizzle_lut[yi])]
             ELSE PanicOutput

\* The early return of a mip level's closure.
MipSkipped(i) ==
    LevelDim(guess_width, i) < 4 \/ LevelDim(guess_height, i) < 4

\* The branch that runs one task per level of the deswizzled input against
\* the single level of the swizzled input.
SingleProbe == BufLen(swizzled_mipmaps) = 1 /\ BufLen(deswizzled_mipmaps) > 1

\* The table the task of level i builds, and the table it hands on after
\* subtracting start_index from every entry.
TaskLut(i) == create_mip_deswizzle_lut(swizzled_mipmaps[0], deswizzled_mipmaps[i])

Normalised(t) == Shifted(t, MinOf(t))

\* The text the closure of the single-probe branch builds from the table t
\* of level i.
TaskOutput(i, t) ==
    IF BufLen(t) = 0 THEN PanicOutput
    ELSE LET swizzle_output ==
                 get_swizzle_patterns_output(Normalised(t),
                     LevelDim(guess_width, i), LevelDim(guess_height, i),
                     tile_dimension(guess_format))
         IN  IF swizzle_output = PanicOutput THEN PanicOutput
             ELSE [kind |-> "mip", start_index |-> MinOf(t),
                   end_index |-> MaxOf(t), pattern |-> swizzle_output]

\* The value of the closure of the single-probe branch for level i.
SingleMipOutput(i) ==
    IF MipSkipped(i) THEN EmptyOutput ELSE TaskOutput(i, TaskLut(i))

\* The value of the closure of the paired branch for level i.
PairedMipOutput(i) ==
    IF MipSkipped(i) THEN EmptyOutput
    ELSE get_swizzle_patterns_output(mip_luts[i],
             LevelDim(guess_width, i), LevelDim(guess_height, i),
             tile_dimension(guess_format))

\* f with the value v added at the new index i.
Extend(f, i, v) == [j \in DOMAIN f \cup {i} |-> IF j = i THEN v ELSE f[j]]

\* What the task of level i leaves behind, t being the table it built.
TaskRuns(i, t) ==
    /\ mip_outputs' = Extend(mip_outputs, i, TaskOutput(i, t))
    /\ mip_luts' = Extend(mip_luts, i, t)
    /\ pattern_luts' = IF BufLen(t) = 0 THEN pattern_luts
                       ELSE Extend(pattern_luts, i, Normalised(t))

\* The task of one mip level of the single-probe branch runs; the pool runs
\* the tasks in any order.
MipTask ==
    /\ guess_pc = "read"
    /\ SingleProbe
    /\ \E i \in DOMAIN deswizzled_mipmaps \ DOMAIN mip_outputs :
          /\ finish_order' = Append(finish_order, i)
          /\ IF MipSkipped(i)
             THEN /\ mip_outputs' = Extend(mip_outputs, i, EmptyOutput)
                  /\ UNCHANGED <<mip_luts, pattern_luts>>
             ELSE TaskRuns(i, TaskLut(i))
    /\ UNCHANGED <<guess_pc, guess_format, guess_width, guess_height, arrangement,
                   swizzled_mipmaps, deswizzled_mipmaps, printed,
                   mask_vars, call_vars, walk_vars, lut_vars>>

\* Plausible slip: the outputs kept in the order the tasks finished.
Collected_as_finished(outputs, order) ==
    [i \in 0..(Len(order) - 1) |-> outputs[order[i + 1]]]

\* collect(): the outputs in the order of the levels.
Collected(outputs, order) ==
    [i \in 0..(Len(order) - 1) |-> outputs[i]]

\* Every task has run: collect() and the loop that prints the outputs. A
\* task that panicked takes the call down with it.
CollectAndPrint ==
    /\ guess_pc = "read"
    /\ SingleProbe
    /\ DOMAIN mip_outputs = DOMAIN deswizzled_mipmaps
    /\ IF \E i \in DOMAIN mip_outputs : mip_outputs[i] = PanicOutput
       THEN guess_pc' = "panic" /\ UNCHANGED printed
       ELSE /\ guess_pc' = "done"
            /\ printed' = Collected(mip_outputs, finish_order)
    /\ UNCHANGED <<guess_format, guess_width, guess_height, arrangement,
                   swizzled_mipmaps, deswizzled_mipmaps, mip_luts, pattern_luts,
                   mip_outputs, finish_order,
                   mask_vars, call_vars, walk_vars, lut_vars>>

\* The paired branch builds the tables of all levels.
PairedLuts ==
    /\ guess_pc = "read"
    /\ ~SingleProbe
    /\ mip_luts' = create_deswizzle_luts(swizzled_mipmaps, deswizzled_mipmaps)
    /\ pattern_luts' = mip_luts'
    /\ guess_pc' = "luts"
    /\ UNCHANGED <<guess_format, guess_width, guess_height, arrangement,
                   swizzled_mipmaps, deswizzled_mipmaps, mip_outputs,
                   finish_order, printed,
                   mask_vars, call_vars, walk_vars, lut_vars>>

\* The sequential map over the tables, and the loop that prints.
PairedOutputs ==
    /\ guess_pc = "luts"
    /\ mip_outputs' = [i \in DOMAIN mip_luts |-> PairedMipOutput(i)]
    /\ finish_order' = [k \in 1..BufLen(mip_luts) |-> k - 1]
    /\ IF \E i \in DOMAIN mip_luts : PairedMipOutput(i) = PanicOutput
       THEN guess_pc' = "panic" /\ UNCHANGED printed
       ELSE /\ guess_pc' = "done"
            /\ printed' = mip_outputs'
    /\ UNCHANGED <<guess_format, guess_width, guess_height, arrangement,
                   swizzled_mipmaps, deswizzled_mipmaps, mip_luts, pattern_luts,
                   mask_vars, call_vars, walk_vars, lut_vars>>

GuessNext == MipTask \/ CollectAndPrint \/ PairedLuts \/ PairedOutputs

InitGuess == GuessInit /\ MaskIdle /\ WalkerIdle /\ LutIdle

SpecGuess == InitGuess /\ [][GuessNext]_vars

\* ------------------------------------------------------------------------
\* Properties of swizzle_data, deswizzle_data and the walker (checked under
\* Spec)
\* ------------------------------------------------------------------------

\* The buffer the first call was given.
OriginalInput ==
    InputBuffer(pattern, (width \div TileEdge(format)) * (height \div TileEdge(format))
                             * get_tile_size(format))

\* C1 (as claimed): for every format and every supported power-of-two image
\* and every buffer x of the expected size, swizzle_data(deswizzle_data(x))
\* and deswizzle_data(swizzle_data(x)) are defined and equal to x.
C1_RoundTrip ==
    /\ pc # "panic"
    /\ (stage = 2 /\ pc = "returned") => output_data = OriginalInput

\* The tile-aligned offsets of a buffer of w * h tiles of n bytes.
TileOffsets(w, h, n) == {k * n : k \in 0..(w * h - 1)}

\* C2 (as claimed): for both variants and every power-of-two tile grid, the
\* swizzled addresses the walk visits are pairwise distinct, lie among the
\* tile-aligned offsets of a buffer of w * h tiles, and are all of them once
\* the walk is over.
C2_WalkBijective ==
    (stage >= 1 /\ format # "Rgba8") =>
        /\ \A i, j \in 1..Len(visited) : i # j => visited[i] # visited[j]
        /\ \A i \in 1..Len(visited) :
              visited[i] \in TileOffsets(grid_width, grid_height, bytes_per_copy)
        /\ pc = "returned" =>
              {visited[i] : i \in 1..Len(visited)}
                  = TileOffsets(grid_width, grid_height, bytes_per_copy)

\* The linear address of iteration (row, col).
LinearAddress == (row * grid_width + col) * bytes_per_copy

\* The buffer f with the n bytes from start on replaced by those of g.
RECURSIVE Patch(_, _, _, _)
Patch(f, g, start, n) ==
    IF n = 0 THEN f
    ELSE Patch([f EXCEPT ![start + n - 1] = g[start + n - 1]], g, start, n - 1)

\* C5, one step: a step that copies does so between the linear address of the
\* current (row, col) and the swizzled address offset_x + offset_y, in the
\* direction the flag selects; it leaves the source and every destination
\* byte outside the copied range as they were.
C5_StepEffect ==
    (pc = "walk" /\ copies' # copies) =>
        LET l == LinearAddress
            s == offset_x + offset_y
            to == IF deswizzle THEN l ELSE s
            from == IF deswizzle THEN s ELSE l
        IN /\ copies' = Append(copies, <<l, s>>)
           /\ input_data' = input_data
           /\ DOMAIN output_data' = DOMAIN output_data
           /\ \A k \in 0..(bytes_per_copy - 1) :
                 output_data'[to + k] = input_data[from + k]
           /\ Patch(output_data', output_data, to, bytes_per_copy) = output_data

\* C5, the whole walk: the copies made so far are those of the first
\* positions of the grid in row-major order, one each, and a walk that
\* returns has made one for every position.
C5_RowMajor ==
    (stage >= 1 /\ format # "Rgba8") =>
        /\ \A n \in 1..Len(copies) : copies[n][1] = (n - 1) * bytes_per_copy
        /\ Len(copies) = row * grid_width + col
        /\ pc = "returned" => Len(copies) = grid_width * grid_height

\* C5: swizzle_experimental makes exactly one tile copy per grid position, in
\* row-major order, between the linear and the swizzled address, in the
\* direction of the flag, and changes nothing else.
C5_WalkerCopyEffect == [][C5_StepEffect]_vars /\ []C5_RowMajor

\* C5 witness: a deswizzling walk over a grid of several rows and columns
\* has returned, having copied a tile from a swizzled address that differs
\* from its linear address.
C5_Witness ==
    /\ pc = "returned"
    /\ deswizzle
    /\ grid_width >= 2
    /\ grid_height >= 2
    /\ Len(copies) = grid_width * grid_height
    /\ \E n \in 1..Len(copies) : copies[n][1] # copies[n][2]
    /\ output_data # Zeros(BufLen(output_data))

\* C12 (as claimed): the operations compare the buffer lengths with the
\* expected size, and a call on a buffer of another length ends with an
\* InvalidBuffer error returned to the caller; no call makes an out-of-bounds
\* access (which the slice index turns into a panic).
C12_BufferValidated ==
    /\ pc # "panic"
    /\ (stage >= 1 /\ BufLen(input_data) # ExpectedSize(format, width, height))
          => pc = "invalid_buffer"

\* C13 (as claimed): the buffer allocated and returned has one tile of
\* get_tile_size bytes per tile of the image, the tile edge being 1 pixel for
\* Rgba8 and RgbaF32 and 4 for Bc1/Bc3/Bc7; the walker is handed that same
\* tile grid, and every address it touches lies inside the buffer.
C13_BufferSizing ==
    stage >= 1 =>
        /\ BufLen(output_data) = ExpectedSize(format, width, height)
        /\ RunsWalker(format) =>
              /\ grid_width = width \div TileEdge(format)
              /\ grid_height = height \div TileEdge(format)
        /\ pc # "panic"

\* C14: for Rgba8 the call returns at once, having copied nothing, and every
\* byte of the buffer it returns is zero whatever the input holds.
C14_Rgba8NoOp ==
    (stage >= 1 /\ format = "Rgba8") =>
        /\ pc = "returned"
        /\ copies = << >>
        /\ BufLen(output_data) = (width \div 4) * (height \div 4) * 4
        /\ \A k \in DOMAIN output_data : output_data[k] = 0

\* C14 witness: a call for Rgba8 on an input that holds non-zero bytes has
\* returned a buffer that is not empty.
C14_Witness ==
    /\ stage >= 1
    /\ format = "Rgba8"
    /\ pc = "returned"
    /\ BufLen(output_data) >= 16
    /\ \E k \in DOMAIN input_data : input_data[k] # 0

\* a & b on non-negative integers, by binary digits.
RECURSIVE IntAndOf(_, _)
IntAndOf(a, b) ==
    IF a = 0 \/ b = 0 THEN 0
    ELSE (a % 2) * (b % 2) + 2 * IntAndOf(a \div 2, b \div 2)

\* The y offset after r rows of a walk that starts at 0.
RECURSIVE YAfter(_)
YAfter(r) == IF r = 0 THEN 0 ELSE NextOffset(YAfter(r - 1), y_mask)

\* C15 (as claimed): during the walk the set bits of the x offset lie inside
\* Mx; it is 0 at the start of every row and again after exactly grid_width
\* steps, and not in between, its values within a row being pairwise
\* distinct; the y offsets of the rows are pairwise distinct.
C15_RowWrap ==
    (pc = "walk" /\ row < grid_height) =>
        /\ IntAndOf(offset_x, x_mask) = offset_x
        /\ (col = 0 \/ col = grid_width) <=> offset_x = 0
        /\ \A i, j \in (Len(visited) - col + 1)..Len(visited) :
              i # j => visited[i] # visited[j]
        /\ offset_y = YAfter(row)
        /\ \A r \in 0..(row - 1) : YAfter(r) # offset_y

\* ------------------------------------------------------------------------
\* Properties of the mask generators (checked under SpecMask)
\* ------------------------------------------------------------------------

\* Bitwise operators on non-negative integers, by binary digits.
RECURSIVE IntAnd(_, _)
IntAnd(a, b) ==
    IF a = 0 \/ b = 0 THEN 0
    ELSE (a % 2) * (b % 2) + 2 * IntAnd(a \div 2, b \div 2)

RECURSIVE IntOr(_, _)
IntOr(a, b) ==
    IF a = 0 THEN b
    ELSE IF b = 0 THEN a
    ELSE (IF (a % 2) + (b % 2) > 0 THEN 1 ELSE 0) + 2 * IntOr(a \div 2, b \div 2)

\* v with its n lowest bits cleared: v & ~(2^n - 1).
ClearLow(v, n) == v - (v % Pow2(n))

\* all-ones >> (leading_zeros(n) + 1): the low bit_width(n) - 1 bits set.
LowOnes(n) == Pow2(BitWidth(n) - 1) - 1

IsPow2(n) == \E k \in 0..30 : n = Pow2(k)

MaskDone == mask_pc = "result"

\* The generators' values on a power-of-two grid of a supported image: up to
\* 256 tiles per axis for the 8-byte variant (Bc1), up to 1024 for the
\* 16-byte variant (RgbaF32).
SupportedGrid ==
    /\ IsPow2(mask_w)
    /\ IsPow2(mask_h)
    /\ mask_w <= (IF mask_variant = 8 THEN 256 ELSE 1024)
    /\ mask_h <= (IF mask_variant = 8 THEN 256 ELSE 1024)

\* C3 (as claimed): on every supported power-of-two grid, square or not, the
\* x mask and the y mask of either variant share no bit: Mx & My = 0.
C3_MaskDisjoint ==
    (MaskDone /\ SupportedGrid) => IntAnd(mask_x, mask_y) = 0

\* C4 (as claimed): on every power-of-two grid, for both variants,
\* (Mx | My) + bytes_per_tile = w * h * bytes_per_tile.
C4_MaskSum ==
    (MaskDone /\ IsPow2(mask_w) /\ IsPow2(mask_h) /\ mask_w <= 1024 /\ mask_h <= 1024)
        => IntOr(mask_x, mask_y) + mask_variant = mask_w * mask_h * mask_variant

\* The 16-byte closed form of the specification (section 4.A).
SpecMx16(w, h) ==
    IF w <= 2 THEN 16
    ELSE LET x == LowOnes(w)
             shift == Min(BitWidth(h) - 1, 7)
         IN 16 * IntOr(IntOr(2 * IntAnd(x, 1), 8 * IntAnd(x, 2)),
                       ClearLow(x, 2) * Pow2(shift))

SpecMy16(w, h) ==
    IF h <= 2 THEN 32
    ELSE LET y == LowOnes(h)
         IN 16 * IntOr(IntOr(IntAnd(y, 1), 2 * IntAnd(y, 6)),
                       IntOr(4 * IntAnd(y, 120), 256 * IntAnd(y, 128)))

\* Values asserted by tests::swizzle_x_16_power2 and swizzle_y_16_power2 for
\* the square grids of n x n tiles.
TestSizes16 == {2, 4, 8, 16, 32, 64, 128, 256}

TestX16(n) ==
    CASE n = 2 -> \b10000
      [] n = 4 -> \b100100000
      [] n = 8 -> \b1100100000
      [] n = 16 -> \b110100100000
      [] n = 32 -> \b11100100100000
      [] n = 64 -> \b1111000100100000
      [] n = 128 -> \b111110000100100000
      [] n = 256 -> \b1111110000100100000

TestY16(n) ==
    CASE n = 2 -> \b100000
      [] n = 4 -> \b1010000
      [] n = 8 -> \b11010000
      [] n = 16 -> \b1011010000
      [] n = 32 -> \b11011010000
      [] n = 64 -> \b111011010000
      [] n = 128 -> \b1111011010000
      [] n = 256 -> \b10000001111011010000

\* C6: for all tile counts, swizzle_x_16 and swizzle_y_16 return the values
\* of the specification's 16-byte closed form, and on the square grids of
\* 2, 4, ..., 256 tiles these are the values the unit tests assert.
C6_Mask16ClosedForm ==
    (MaskDone /\ mask_variant = 16) =>
        /\ mask_x = SpecMx16(mask_w, mask_h)
        /\ mask_y = SpecMy16(mask_w, mask_h)
        /\ (mask_w = mask_h /\ mask_w \in TestSizes16) =>
              /\ mask_x = TestX16(mask_w)
              /\ mask_y = TestY16(mask_h)

\* C6 witness: the 16-byte generators were evaluated on a grid that takes the
\* long branch of both and caps the shift at 7 (256 x 256 tiles).
C6_Witness ==
    /\ MaskDone
    /\ mask_variant = 16
    /\ mask_w = 256
    /\ mask_h = 256
    /\ mask_x = TestX16(256)
    /\ mask_y = TestY16(256)

\* The 8-byte closed form as the specification states it: the high lanes of
\* x are x & ~3.
SpecMx8(w, h) ==
    LET x == LowOnes(w)
    IN 8 * IntOr(IntOr(IntAnd(x, 1), 2 * IntAnd(x, 2)),
                 IntOr(8 * IntAnd(x, 4), ClearLow(x, 2) * Pow2(BitWidth(h) - 1)))

\* The same with the high lanes of x taken as x & ~7.
AmendedMx8(w, h) ==
    LET x == LowOnes(w)
    IN 8 * IntOr(IntOr(IntAnd(x, 1), 2 * IntAnd(x, 2)),
                 IntOr(8 * IntAnd(x, 4), ClearLow(x, 3) * Pow2(BitWidth(h) - 1)))

SpecMy8(w, h) ==
    LET y == LowOnes(h)
    IN 8 * IntOr(2 * IntAnd(y, 1), IntOr(4 * IntAnd(y, 6), 8 * IntAnd(y, 120)))

\* Values asserted by tests::swizzle_x_8_power2 and swizzle_y_8_power2.
TestSizes8 == {2, 4, 8, 16, 32, 64, 128}

TestX8(n) ==
    CASE n = 2 -> \b1000
      [] n = 4 -> \b101000
      [] n = 8 -> \b100101000
      [] n = 16 -> \b10100101000
      [] n = 32 -> \b1100100101000
      [] n = 64 -> \b111000100101000
      [] n = 128 -> \b11110000100101000

TestY8(n) ==
    CASE n = 2 -> \b10000
      [] n = 4 -> \b1010000
      [] n = 8 -> \b11010000
      [] n = 16 -> \b1011010000
      [] n = 32 -> \b11011010000
      [] n = 64 -> \b111011010000
      [] n = 128 -> \b1111011010000

C8_Scenario256AsClaimed ==
    (MaskDone /\ mask_variant = 16 /\ mask_w = 256 /\ mask_h = 256) =>
        /\ mask_x = \b111110000100100000
        /\ mask_y = \b111011010000

\* C8 (amended): swizzle_x_16(256, 256) = 0b1111110000100100000 and
\* swizzle_y_16(256, 256) = 0b10000001111011010000; the values of the claim
\* are those of swizzle_x_16(128, 128) and swizzle_y_16(64, 64).
C8_Scenario256Amended ==
    /\ (MaskDone /\ mask_variant = 16 /\ mask_w = 256 /\ mask_h = 256) =>
          /\ mask_x = \b1111110000100100000
          /\ mask_y = \b10000001111011010000
    /\ (MaskDone /\ mask_variant = 16 /\ mask_w = 128 /\ mask_h = 128) =>
          mask_x = \b111110000100100000
    /\ (MaskDone /\ mask_variant = 16 /\ mask_w = 64 /\ mask_h = 64) =>
          mask_y = \b111011010000

\* C8 witness: the 16-byte generators returned for the arguments (256, 256).
C8_Witness ==
    /\ MaskDone
    /\ mask_variant = 16
    /\ mask_w = 256
    /\ mask_h = 256
    /\ mask_x > 0
    /\ mask_y > 0

\* ------------------------------------------------------------------------
\* Properties of create_mip_deswizzle_lut (checked under SpecLut)
\* ------------------------------------------------------------------------

\* The positions of linear that hold the block b.
PositionsOf(b) == {k \in DOMAIN linear : linear[k] = b}

Largest(S) == CHOOSE m \in S : \A k \in S : k <= m

\* C9: the table has one entry per deswizzled block, in the order of the
\* deswizzled blocks whatever the order the lookups ran in; entry i is the
\* largest position in linear of a block equal to deswizzled[i], and -1 when
\* linear holds no such block.
C9_InverseIndexTable ==
    lut_pc = "done" =>
        /\ DOMAIN lut = DOMAIN deswizzled
        /\ \A i \in DOMAIN deswizzled :
              IF PositionsOf(deswizzled[i]) = {}
              THEN lut[i] = -1
              ELSE /\ lut[i] = Largest(PositionsOf(deswizzled[i]))
                   /\ linear[lut[i]] = deswizzled[i]

\* C9 witness: a table was collected for a probe holding a block twice that
\* the deswizzled sequence asks for, and for a block the probe lacks.
C9_Witness ==
    /\ lut_pc = "done"
    /\ \E i \in DOMAIN deswizzled : Cardinality(PositionsOf(deswizzled[i])) >= 2
    /\ \E i \in DOMAIN deswizzled : lut[i] = -1

Distinct(f) == \A i, j \in DOMAIN f : i # j => f[i] # f[j]

\* The table is a permutation of [0, N), N the number of deswizzled blocks.
IsPermutation ==
    /\ \A v \in 0..(BufLen(deswizzled) - 1) :
          Cardinality({i \in DOMAIN lut : lut[i] = v}) = 1
    /\ \A i \in DOMAIN lut : lut[i] \in 0..(BufLen(deswizzled) - 1)

ProbeCovers == \A i \in DOMAIN deswizzled : PositionsOf(deswizzled[i]) # {}

\* C10 (as claimed): whenever the probe's blocks are pairwise distinct and
\* every deswizzled block occurs in the probe, the table is a permutation of
\* [0, N).
C10_PermutationAsClaimed ==
    (lut_pc = "done" /\ Distinct(linear) /\ ProbeCovers) => IsPermutation

\* C10 (amended): whenever the probe's blocks are pairwise distinct, the
\* deswizzled blocks are pairwise distinct, the two sequences have the same
\* length N and every deswizzled block occurs in the probe, the table is a
\* permutation of [0, N).
C10_PermutationAmended ==
    (/\ lut_pc = "done"
     /\ Distinct(linear)
     /\ Distinct(deswizzled)
     /\ BufLen(linear) = BufLen(deswizzled)
     /\ ProbeCovers) => IsPermutation

\* C10 witness: a table was collected for a probe of several distinct blocks
\* and a reordering of it.
C10_Witness ==
    /\ lut_pc = "done"
    /\ Distinct(linear)
    /\ Distinct(deswizzled)
    /\ BufLen(linear) = BufLen(deswizzled)
    /\ BufLen(linear) >= 3
    /\ ProbeCovers
    /\ linear # deswizzled
    /\ IsPermutation

\* ------------------------------------------------------------------------
\* Properties of guess_swizzle_patterns (checked under SpecGuess)
\* ------------------------------------------------------------------------

\* The pattern text of level i, once its output is computed: the whole
\* output in the paired branch, the last part of it in the single-probe one.
PatternOf(i) ==
    IF mip_outputs[i].kind = "mip" THEN mip_outputs[i].pattern ELSE mip_outputs[i]

\* The levels whose output carries the two patterns.
PatternLevels ==
    {i \in DOMAIN mip_outputs : PatternOf(i).kind = "pattern"}

\* The mip of level i in tiles, as get_swizzle_patterns_output counts them.
TilesWide(i) == LevelDim(guess_width, i) \div tile_dimension(guess_format)

TilesHigh(i) == LevelDim(guess_height, i) \div tile_dimension(guess_format)

\* C11 (as claimed): with a probe of pairwise distinct blocks as the swizzled
\* input and the walker's deswizzling of it as the deswizzled input, the
\* entries T[w - 1] and T[w * (h - 1)] of the table built for the level are
\* printed as the x and the y pattern and equal the masks Mx and My of the
\* w x h grid (read as byte offsets, or else as offsets counted in tiles).
C11_InferenceConsistent ==
    (guess_pc = "done" /\ arrangement = "walk"
        /\ BufLen(swizzled_mipmaps) = 1 /\ BufLen(deswizzled_mipmaps) = 1) =>
        LET w == WalkerWidth(guess_format, guess_width)
            h == WalkerWidth(guess_format, guess_height)
            Mx == MaskX(guess_format, w, h)
            My == MaskY(guess_format, w, h)
            T == mip_luts[0]
        IN  /\ printed[0].kind = "pattern"
            /\ printed[0].x = Format032b(T[w - 1])
            /\ printed[0].y = Format032b(T[w * (h - 1)])
            /\ \E unit \in {1, BytesPerCopy(guess_format)} :
                  /\ T[w - 1] * unit = Mx
                  /\ T[w * (h - 1)] * unit = My

\* C16 (as claimed): the x pattern printed is T[w - 1] and the y pattern is
\* T[w * (h - 1)]; when w <= 1 or h <= 1 both probes are entry 0; for a table
\* of length w * h both indices are inside it.
C16_ProbeAsClaimed ==
    \A i \in PatternLevels :
        LET T == pattern_luts[i]
            w == TilesWide(i)
            h == TilesHigh(i)
        IN  /\ (w - 1) \in DOMAIN T /\ PatternOf(i).x = Format032b(T[w - 1])
            /\ (w * (h - 1)) \in DOMAIN T
            /\ PatternOf(i).y = Format032b(T[w * (h - 1)])
            /\ (w <= 1 \/ h <= 1) =>
                  /\ PatternOf(i).x = Format032b(T[0])
                  /\ PatternOf(i).y = Format032b(T[0])

\* C16 (amended): the x pattern printed is T[w - 1] and the y pattern is
\* T[w * (h - 1)]; the x probe is entry 0 when w <= 1, and the y probe is
\* entry 0 when h <= 1, each whatever the other axis; for a table of length
\* w * h both indices are inside it and the call does not panic.
C16_ProbeAmended ==
    /\ \A i \in PatternLevels :
          LET T == pattern_luts[i]
              w == TilesWide(i)
              h == TilesHigh(i)
          IN  /\ w >= 1 /\ h >= 1
              /\ PatternOf(i).x = Format032b(T[w - 1])
              /\ PatternOf(i).y = Format032b(T[w * (h - 1)])
              /\ w <= 1 => PatternOf(i).x = Format032b(T[0])
              /\ h <= 1 => PatternOf(i).y = Format032b(T[0])
              /\ PatternOf(i).width = LevelDim(guess_width, i)
              /\ PatternOf(i).height = LevelDim(guess_height, i)
    /\ \A i \in DOMAIN mip_outputs :
          (i \in DOMAIN pattern_luts
              /\ BufLen(pattern_luts[i]) = TilesWide(i) * TilesHigh(i)
              /\ BufLen(pattern_luts[i]) > 0
              /\ ~MipSkipped(i))
          => i \in PatternLevels

\* C16 witness: a level one tile wide and several tiles high has printed
\* its patterns, the y pattern not being entry 0 of the table.
C16_Witness ==
    \E i \in PatternLevels :
        /\ TilesWide(i) = 1
        /\ TilesHigh(i) > 1
        /\ BufLen(pattern_luts[i]) = TilesWide(i) * TilesHigh(i)
        /\ PatternOf(i).y # Format032b(pattern_luts[i][0])
        /\ PatternOf(i).x = Format032b(pattern_luts[i][0])

\* C17 (as claimed): the level i of width >> i by height >> i pixels has an
\* empty output exactly when one of the two is less than one tile edge of
\* the format (1 pixel for Rgba8 and RgbaF32, 4 for Bc1/Bc3/Bc7), in both
\* branches.
C17_MipSkipRule ==
    \A i \in DOMAIN mip_outputs :
        mip_outputs[i] = EmptyOutput
        <=> \/ LevelDim(guess_width, i) < TileEdge(guess_format)
            \/ LevelDim(guess_height, i) < TileEdge(guess_format)

\* The level of the swizzled input that the table of level m is built
\* against: the single level of the probe, or the level of the same index.
ProbeLevel(m) ==
    IF SingleProbe THEN swizzled_mipmaps[0] ELSE swizzled_mipmaps[m]

\* Whether T maps every block of d to a position of that block in p, and to
\* the sentinel -1 the blocks p does not hold.
IndexesInto(T, d, p) ==
    /\ BufLen(T) = BufLen(d)
    /\ \A i \in DOMAIN d :
          IF \E k \in DOMAIN p : p[k] = d[i]
          THEN T[i] \in DOMAIN p /\ p[T[i]] = d[i]
          ELSE T[i] = -1

\* C18 (as claimed): in both branches the table of level m has the length
\* of level m of the deswizzled input and its entry i is the index, in the
\* swizzled input, of the block equal to deswizzled block i, or the
\* sentinel; the tables of the paired branch are
\* create_mip_deswizzle_lut(swizzled level m, deswizzled level m).
C18_LutOrientation ==
    /\ \A m \in DOMAIN mip_luts :
          IndexesInto(mip_luts[m], deswizzled_mipmaps[m], ProbeLevel(m))
    /\ (guess_pc \in {"luts", "done"} /\ ~SingleProbe) =>
          mip_luts = create_deswizzle_luts_as_named(swizzled_mipmaps,
                                                    deswizzled_mipmaps)

\* The outputs printed by the single-probe branch: one per level of the
\* deswizzled input, the one at position i being the output of level i.
C19_Ordered ==
    (guess_pc = "done" /\ SingleProbe) =>
        /\ DOMAIN printed = DOMAIN deswizzled_mipmaps
        /\ \A i \in DOMAIN printed : printed[i] = SingleMipOutput(i)

\* A step of the single-probe branch that computes an output adds the
\* output of one level that had none, leaves the outputs of the other levels
\* as they were, and leaves both inputs as they were.
C19_TaskEffect ==
    (guess_pc = "read" /\ SingleProbe /\ mip_outputs' # mip_outputs) =>
        /\ \E i \in DOMAIN deswizzled_mipmaps \ DOMAIN mip_outputs :
              /\ DOMAIN mip_outputs' = DOMAIN mip_outputs \cup {i}
              /\ mip_outputs'[i] = SingleMipOutput(i)
              /\ \A j \in DOMAIN mip_outputs : mip_outputs'[j] = mip_outputs[j]
        /\ swizzled_mipmaps' = swizzled_mipmaps
        /\ deswizzled_mipmaps' = deswizzled_mipmaps

\* C19: in the single-probe branch the tasks of the mip levels finish in any
\* order, each reading the shared probe and writing its own output only, and
\* the outputs are printed one per level in increasing order of the level.
C19_MipOrder == []C19_Ordered /\ [][C19_TaskEffect]_vars

\* C19 witness: the outputs are printed after the tasks finished out of
\* order, the outputs of two levels being different.
C19_Witness ==
    /\ guess_pc = "done"
    /\ SingleProbe
    /\ \E k \in 1..(Len(finish_order) - 1) : finish_order[k] > finish_order[k + 1]
    /\ \E i, j \in DOMAIN printed :
          /\ printed[i] # printed[j]
          /\ printed[i].kind = "mip"
          /\ printed[j].kind = "mip"

====
